---- MODULE Spec2Model ----
(***************************************************************************)
(* A model of tuber.py: a script that extracts a YouTube video identifier  *)
(* from a URL, fetches the video's metadata, and writes a markdown note.   *)
(*                                                                         *)
(* A Python str is a sequence of characters; a character is a one-letter   *)
(* TLA+ string, or the name of its code point ("U+0130").  Python's None   *)
(* is the value None below, which is no sequence of characters.            *)
(***************************************************************************)
EXTENDS Integers, Sequences, FiniteSets, TLC

VARIABLES
    pc,                 \* where the run (or the call under study) stands
    \* ---- the process environment and the command line
    TUBER_API_KEY,      \* os.getenv('TUBER_API_KEY')
    youtube_url,        \* args.youtube_url
    flag_resolution,    \* the value given with -r/--resolution, None without the flag
    config_resolution,  \* the 'resolution' key of the configuration file, None without it
    resolution,         \* args.resolution after parse_args
    \* ---- locals and effects of a run
    video_id,           \* the result of extract_video_id
    metadata,           \* the result of get_video_metadata
    size,               \* (width, height) looked up in RESOLUTIONS
    embed_code,         \* the result of generate_embed_code
    vault_path,         \* the vault root handed to create_markdown_file
    requests,           \* the id of every videos().list request issued, in order
    stdout,             \* what was printed to standard output
    stderr,             \* what was printed to standard error
    exit_status,        \* the status the process exits with
    error,              \* the exception that ended the run, "" if none
    consumed,           \* TRUE once metadata was handed on to the embed or the note
    files,              \* the files that exist: records [path, content]
    dirs,               \* the directories that exist
    \* ---- inputs and results of the pure functions
    url_shape,          \* how youtube_url was put together: the shape,
    url_id,             \*   the identifier
    url_tail,           \*   and what follows the identifier
    tags,               \* sanitize_tags: the raw tags
    sanitized,          \*   the result
    resanitized,        \*   the result of sanitizing the result
    title,              \* sanitize_filename: the title
    safe_title          \*   the result

envVars == <<TUBER_API_KEY, flag_resolution, config_resolution>>
urlVars == <<youtube_url, url_shape, url_id, url_tail>>
tagVars == <<tags, sanitized, resanitized>>
titleVars == <<title, safe_title>>
fsVars == <<files, dirs>>
ioVars == <<stdout, stderr, exit_status, error>>

vars == <<pc, envVars, urlVars, tagVars, titleVars, fsVars, ioVars, resolution,
          video_id, metadata, size, embed_code, vault_path, requests, consumed>>

None == <<"None">>

(***************************************************************************)
(* Bounds of the model.                                                    *)
(***************************************************************************)
MaxTags == 2
MaxTagLen == 2
MaxTitleLen == 3
MaxIdLen == 2
MaxTailLen == 2

SeqsUpTo(S, n) == UNION {[1..k -> S] : k \in 0..n}

(***************************************************************************)
(* Python string primitives.                                               *)
(***************************************************************************)
\* s.replace(old, new) for a one-character old and any string new.
RECURSIVE str_replace(_, _, _)
str_replace(s, old, new) ==
    IF s = <<>> THEN <<>>
    ELSE (IF Head(s) = old THEN new ELSE <<Head(s)>>) \o str_replace(Tail(s), old, new)

UpperLetters == {"A", "B"}
LowerLetters == {"a", "b", "i"}
Digits == {"1"}
\* The characters str.isalnum() accepts.
Alnum == UpperLetters \cup LowerLetters \cup Digits \cup {"U+0130"}
\* re's \w on a str pattern: alphanumerics and the underscore.
IsWord(c) == c \in Alnum \cup {"_"}
\* re's \s: Unicode whitespace.
IsSpace(c) == c \in {" ", "\t", "\n"}

\* str.lower() of one character.  U+0130 (capital I with dot above) lowers
\* to the two code points "i", U+0307 (combining dot above); U+0307 is a
\* mark, neither alphanumeric nor whitespace.
lower_char(c) ==
    CASE c = "A" -> <<"a">>
      [] c = "B" -> <<"b">>
      [] c = "U+0130" -> <<"i", "U+0307">>
      [] OTHER -> <<c>>

RECURSIVE str_lower(_)
str_lower(s) ==
    IF s = <<>> THEN <<>> ELSE lower_char(Head(s)) \o str_lower(Tail(s))

(***************************************************************************)
(* sanitize_tags                                                           *)
(***************************************************************************)
\* re.sub(r"[^\w\s]", '-', tag)
re_sub_nonword(tag) ==
    [i \in 1..Len(tag) |-> IF IsWord(tag[i]) \/ IsSpace(tag[i]) THEN tag[i] ELSE "-"]

sanitize_tag(tag) ==
    LET t1 == str_replace(tag, "'", <<>>)
        t2 == re_sub_nonword(t1)
        t3 == str_lower(str_replace(t2, " ", <<"-">>))
    IN  t3

sanitize_tags(ts) == [i \in 1..Len(ts) |-> sanitize_tag(ts[i])]

(***************************************************************************)
(* sanitize_filename                                                       *)
(***************************************************************************)
\* The list with its backslash lost to an unescaped '\|'.
invalid_chars_unescaped == <<"<", ">", ":", "\"", "/", "|", "?", "*">>

\* invalid_chars = '<>:"/\\|?*'
invalid_chars == <<"<", ">", ":", "\"", "/", "\\", "|", "?", "*">>

RECURSIVE replace_each(_, _)
replace_each(t, chars) ==
    IF chars = <<>> THEN t
    ELSE replace_each(str_replace(t, Head(chars), <<"-">>), Tail(chars))

sanitize_filename(t) == replace_each(t, invalid_chars)

(***************************************************************************)
(* extract_video_id                                                        *)
(*   pattern = (youtu\.be\/|youtube\.com\/(watch\?(.*&)?v=|(embed|v)\/))   *)
(*             ([^?&"\>]+)                                                 *)
(***************************************************************************)
lit_youtu_be == <<"y", "o", "u", "t", "u", ".", "b", "e", "/">>
lit_youtube_com == <<"y", "o", "u", "t", "u", "b", "e", ".", "c", "o", "m", "/">>
lit_watch == <<"w", "a", "t", "c", "h", "?">>
lit_v_eq == <<"v", "=">>
lit_embed == <<"e", "m", "b", "e", "d", "/">>
lit_v_slash == <<"v", "/">>

\* The literal lit stands in s at position i.
HasAt(s, i, lit) ==
    /\ i + Len(lit) - 1 <= Len(s)
    /\ \A k \in 1..Len(lit) : s[i + k - 1] = lit[k]

\* The character class of group 5: [^?&"\>]
InGroup5Class(c) == c \notin {"?", "&", "\"", ">"}

\* Group 5 can start at g: the + needs one character of the class.
Group5StartsAt(s, g) == g >= 1 /\ g <= Len(s) /\ InGroup5Class(s[g])

\* The last position of the greedy run [^?&"\>]+ that starts at g.
Group5End(s, g) ==
    CHOOSE e \in g..Len(s) :
        /\ \A k \in g..e : InGroup5Class(s[k])
        /\ e = Len(s) \/ ~InGroup5Class(s[e + 1])

\* (.*&)?v= tried at position p, followed by group 5: where group 5 starts,
\* 0 when there is no match.  The optional group is tried first and .* is
\* greedy, so the rightmost "&v=" reachable without a newline wins; only
\* then is the group skipped.
AfterWatch(s, p) ==
    LET cands == {q \in p..Len(s) :
                    /\ \A k \in p..(q - 1) : s[k] # "\n"
                    /\ s[q] = "&"
                    /\ HasAt(s, q + 1, lit_v_eq)
                    /\ Group5StartsAt(s, q + 3)}
    IN  IF cands # {}
        THEN (CHOOSE q \in cands : \A r \in cands : r <= q) + 3
        ELSE IF HasAt(s, p, lit_v_eq) /\ Group5StartsAt(s, p + 2) THEN p + 2 ELSE 0

\* youtube\.com\/(watch\?(.*&)?v=|(embed|v)\/) tried at i, followed by group 5.
AfterYoutubeCom(s, i) ==
    LET p == i + Len(lit_youtube_com)
        w == IF HasAt(s, p, lit_watch) THEN AfterWatch(s, p + Len(lit_watch)) ELSE 0
        e == IF HasAt(s, p, lit_embed) /\ Group5StartsAt(s, p + Len(lit_embed))
             THEN p + Len(lit_embed) ELSE 0
        v == IF HasAt(s, p, lit_v_slash) /\ Group5StartsAt(s, p + Len(lit_v_slash))
             THEN p + Len(lit_v_slash) ELSE 0
    IN  IF ~HasAt(s, i, lit_youtube_com) THEN 0
        ELSE IF w # 0 THEN w ELSE IF e # 0 THEN e ELSE v

\* The whole pattern tried at i: where group 5 starts, 0 when there is no match.
MatchAt(s, i) ==
    LET b == IF HasAt(s, i, lit_youtu_be) /\ Group5StartsAt(s, i + Len(lit_youtu_be))
             THEN i + Len(lit_youtu_be) ELSE 0
    IN  IF b # 0 THEN b ELSE AfterYoutubeCom(s, i)

\* re.search: the leftmost position where the pattern matches; group(5) or None.
extract_video_id(u) ==
    LET starts == {i \in 1..Len(u) : MatchAt(u, i) # 0}
    IN  IF starts = {} THEN None
        ELSE LET i == CHOOSE j \in starts : \A k \in starts : j <= k
                 g == MatchAt(u, i)
             IN  SubSeq(u, g, Group5End(u, g))

(***************************************************************************)
(* The preset table: a dict, kept as its items in insertion order.         *)
(***************************************************************************)
RESOLUTIONS == <<
    [key |-> <<"n", "H", "D">>, value |-> <<640, 360>>],
    [key |-> <<"F", "W", "V", "G", "A">>, value |-> <<854, 480>>],
    [key |-> <<"q", "H", "D">>, value |-> <<960, 540>>],
    [key |-> <<"S", "D">>, value |-> <<1280, 720>>],
    [key |-> <<"W", "X", "G", "A">>, value |-> <<1366, 768>>],
    [key |-> <<"H", "D", "+">>, value |-> <<1600, 900>>],
    [key |-> <<"F", "H", "D">>, value |-> <<1920, 1080>>],
    [key |-> <<"W", "Q", "H", "D">>, value |-> <<2560, 1440>>],
    [key |-> <<"Q", "H", "D", "+">>, value |-> <<3200, 1800>>],
    [key |-> <<"4", "K", " ", "U", "H", "D">>, value |-> <<3840, 2160>>],
    [key |-> <<"5", "K">>, value |-> <<5120, 2880>>],
    [key |-> <<"8", "K", " ", "U", "H", "D">>, value |-> <<7680, 4320>>],
    [key |-> <<"1", "6", "K", " ", "U", "H", "D">>, value |-> <<15360, 8640>>]
>>

\* key in d
dict_has(d, k) == \E i \in 1..Len(d) : d[i].key = k
\* d[key], for a key of d
dict_get(d, k) == d[CHOOSE i \in 1..Len(d) : d[i].key = k].value

(***************************************************************************)
(* Name resolution.  A function body sees its own locals and the module's  *)
(* globals: the imports of lines 3-9 and the module-level assignments and  *)
(* definitions.  Reading any other name raises NameError.                  *)
(***************************************************************************)
module_globals ==
    {"os", "re", "sys", "json", "ArgumentParser", "RawDescriptionHelpFormatter",
     "build", "YAML", "TUBER_API_KEY", "RESOLUTIONS", "load_config", "sanitize_tags",
     "sanitize_filename", "extract_video_id", "get_video_metadata",
     "generate_embed_code", "create_markdown_file", "epilog", "main"}

main_locals == {"args", "metadata", "width", "height", "embed_code"}

create_markdown_file_locals ==
    {"metadata", "embed_code", "config", "vault_path", "youtube_folder_path",
     "title", "file_name", "file_path", "file", "tags", "sanitized_tags"}

\* A truth test that takes only None for false.
is_none_only(x) == x = None

\* `not x` for an optional str: None and the empty string are falsy.
is_falsy(x) == x = None \/ x = <<>>

(***************************************************************************)
(* Values of the variables a specification does not use.                   *)
(***************************************************************************)
NoMetadata == [type |-> "NoneType"]

EnvIdle ==
    /\ TUBER_API_KEY = None /\ flag_resolution = None /\ config_resolution = None
    /\ resolution = None
RunIdle ==
    /\ size = <<>> /\ embed_code = None /\ requests = <<>> /\ consumed = FALSE
    /\ stdout = <<>> /\ stderr = <<>> /\ exit_status = 0 /\ error = ""
FsIdle == files = {} /\ dirs = {} /\ vault_path = None /\ metadata = NoMetadata
UrlIdle ==
    /\ youtube_url = <<>> /\ url_shape = "" /\ url_id = <<>> /\ url_tail = <<>>
    /\ video_id = None
TagsIdle == tags = <<>> /\ sanitized = <<>> /\ resanitized = <<>>
TitleIdle == title = <<>> /\ safe_title = <<>>

(***************************************************************************)
(* The URLs under study: a scheme, one of the shapes, an identifier and    *)
(* what follows it.  An identifier is a run of letters, digits, "-" and    *)
(* "_"; what follows is empty or starts with a character no identifier has.*)
(***************************************************************************)
SupportedShapes ==
    {"youtu.be/<id>", "watch?v=<id>", "watch?<params>&v=<id>", "embed/<id>", "v/<id>"}
OtherShapes == {"vimeo.com/<id>", "playlist?list=<id>", "watch?list=<id>"}
Shapes == SupportedShapes \cup OtherShapes

ShapeText(sh) ==
    CASE sh = "youtu.be/<id>" -> lit_youtu_be
      [] sh = "watch?v=<id>" -> lit_youtube_com \o lit_watch \o lit_v_eq
      [] sh = "watch?<params>&v=<id>" ->
            lit_youtube_com \o lit_watch \o <<"t", "=", "1", "&">> \o lit_v_eq
      [] sh = "embed/<id>" -> lit_youtube_com \o lit_embed
      [] sh = "v/<id>" -> lit_youtube_com \o lit_v_slash
      [] sh = "vimeo.com/<id>" -> <<"v", "i", "m", "e", "o", ".", "c", "o", "m", "/">>
      [] sh = "playlist?list=<id>" ->
            lit_youtube_com \o <<"p", "l", "a", "y", "l", "i", "s", "t", "?", "l", "i", "s", "t", "=">>
      [] sh = "watch?list=<id>" -> lit_youtube_com \o lit_watch \o <<"l", "i", "s", "t", "=">>

Schemes == {<<>>, <<"h", "t", "t", "p", "s", ":", "/", "/">>}
IdChars == {"a", "1", "-", "_"}
Delimiters == {"?", "&", "#", "/"}
TailChars == Delimiters \cup {"t"}
Ids == SeqsUpTo(IdChars, MaxIdLen) \ {<<>>}
Tails == {t \in SeqsUpTo(TailChars, MaxTailLen) : t = <<>> \/ t[1] \in Delimiters}

(***************************************************************************)
(* extract_video_id, called on each URL.                                   *)
(***************************************************************************)
InitExtract ==
    /\ pc = "extract_video_id"
    /\ url_shape \in Shapes
    /\ url_id \in Ids
    /\ url_tail \in Tails
    /\ \E scheme \in Schemes :
           youtube_url = scheme \o ShapeText(url_shape) \o url_id \o url_tail
    /\ video_id = None
    /\ EnvIdle /\ RunIdle /\ FsIdle /\ TagsIdle /\ TitleIdle

CallExtractVideoId ==
    /\ pc = "extract_video_id"
    /\ video_id' = extract_video_id(youtube_url)
    /\ pc' = "returned"
    /\ UNCHANGED <<envVars, urlVars, tagVars, titleVars, fsVars, ioVars, resolution,
                   metadata, size, embed_code, vault_path, requests, consumed>>

SpecExtract == InitExtract /\ [][CallExtractVideoId]_vars

(***************************************************************************)
(* sanitize_tags, called on raw tags and then on its own result, as        *)
(* get_video_metadata (line 85) and create_markdown_file (line 107) do.    *)
(***************************************************************************)
TagChars == {"A", "a", "1", "_", "'", " ", "\t", "&", "-", "U+0130"}
RawTags == SeqsUpTo(TagChars, MaxTagLen)

InitTags ==
    /\ pc = "sanitize_tags"
    /\ tags \in SeqsUpTo(RawTags, MaxTags)
    /\ sanitized = <<>> /\ resanitized = <<>>
    /\ EnvIdle /\ RunIdle /\ FsIdle /\ UrlIdle /\ TitleIdle

CallSanitizeTags ==
    /\ pc = "sanitize_tags"
    /\ sanitized' = sanitize_tags(tags)
    /\ pc' = "sanitize_tags_again"
    /\ UNCHANGED <<envVars, urlVars, tags, resanitized, titleVars, fsVars, ioVars,
                   resolution, video_id, metadata, size, embed_code, vault_path,
                   requests, consumed>>

CallSanitizeTagsAgain ==
    /\ pc = "sanitize_tags_again"
    /\ resanitized' = sanitize_tags(sanitized)
    /\ pc' = "returned"
    /\ UNCHANGED <<envVars, urlVars, tags, sanitized, titleVars, fsVars, ioVars,
                   resolution, video_id, metadata, size, embed_code, vault_path,
                   requests, consumed>>

NextTags == CallSanitizeTags \/ CallSanitizeTagsAgain

SpecTags == InitTags /\ [][NextTags]_vars

(***************************************************************************)
(* sanitize_filename, called on each title.                                *)
(***************************************************************************)
TitleChars == {"<", ">", ":", "\"", "/", "\\", "|", "?", "*", "a", "B", " ", "-", "."}

InitFilename ==
    /\ pc = "sanitize_filename"
    /\ title \in SeqsUpTo(TitleChars, MaxTitleLen)
    /\ safe_title = <<>>
    /\ EnvIdle /\ RunIdle /\ FsIdle /\ UrlIdle /\ TagsIdle

CallSanitizeFilename ==
    /\ pc = "sanitize_filename"
    /\ safe_title' = sanitize_filename(title)
    /\ pc' = "returned"
    /\ UNCHANGED <<envVars, urlVars, tagVars, title, fsVars, ioVars, resolution,
                   video_id, metadata, size, embed_code, vault_path, requests, consumed>>

SpecFilename == InitFilename /\ [][CallSanitizeFilename]_vars

(***************************************************************************)
(* The script: argument parsing (lines 139-181) and main (lines 124-137).  *)
(***************************************************************************)
res_FHD == <<"F", "H", "D">>
res_SD == <<"S", "D">>
res_4K == <<"4", "K">>     \* no key of RESOLUTIONS ("4K UHD" is)

ApiKeys == {None, <<>>, <<"k">>}
ResolutionInputs == {None, res_FHD, res_SD, res_4K}
MainIds == {<<"a", "1">>}
MainTails == {<<>>, <<"#", "t">>}

\* What request.execute() can do: raise, or return a response with items.
Snippets ==
    [title : {<<"a">>, <<"a", "/", "B">>},
     description : {<<"d">>},
     channelTitle : {<<"c">>},
     publishedAt : {None},
     tags : {None, << <<"A", " ">>, <<"A", " ">> >>}]
Responses ==
    {[raises |-> TRUE, items |-> <<>>], [raises |-> FALSE, items |-> <<>>]}
        \cup {[raises |-> FALSE, items |-> <<[snippet |-> sn]>>] : sn \in Snippets}

msg_usage == <<"usage: argument -r/--resolution: invalid choice">>
msg_no_key == <<"API key not found. Set the TUBER_API_KEY environment variable.">>
msg_not_found == <<"No video found for this ID.">>
msg_traceback == <<"Traceback (most recent call last):">>

Init ==
    /\ pc = "parse_args"
    /\ TUBER_API_KEY \in ApiKeys
    /\ flag_resolution \in ResolutionInputs
    /\ config_resolution \in ResolutionInputs
    /\ resolution = None
    /\ url_shape \in Shapes
    /\ url_id \in MainIds
    /\ url_tail \in MainTails
    /\ youtube_url = <<"h", "t", "t", "p", "s", ":", "/", "/">>
                        \o ShapeText(url_shape) \o url_id \o url_tail
    /\ video_id = None
    /\ vault_path = <<"v">>
    /\ metadata = NoMetadata
    /\ files = {} /\ dirs = {}
    /\ RunIdle /\ TagsIdle /\ TitleIdle

\* An uncaught exception: the traceback goes to standard error, the status is 1.
Raise(e) ==
    /\ error' = e
    /\ exit_status' = 1
    /\ stderr' = Append(stderr, msg_traceback)
    /\ pc' = "exited"

\* parser.parse_args(rem): choices are checked on a value given on the command
\* line only; a default, from set_defaults(**config) or None, is taken as is.
ParseArgs ==
    /\ pc = "parse_args"
    /\ IF flag_resolution # None /\ ~dict_has(RESOLUTIONS, flag_resolution)
       THEN /\ stderr' = Append(stderr, msg_usage)
            /\ exit_status' = 2
            /\ error' = "SystemExit"
            /\ pc' = "exited"
            /\ UNCHANGED resolution
       ELSE /\ resolution' = IF flag_resolution # None THEN flag_resolution
                             ELSE config_resolution
            /\ pc' = "main"
            /\ UNCHANGED <<stderr, exit_status, error>>
    /\ UNCHANGED <<envVars, urlVars, tagVars, titleVars, fsVars, stdout, video_id,
                   metadata, size, embed_code, vault_path, requests, consumed>>

\* main, lines 125-127
CheckApiKey ==
    /\ pc = "main"
    /\ IF is_falsy(TUBER_API_KEY)
       THEN /\ stderr' = Append(stderr, msg_no_key)
            /\ exit_status' = 1
            /\ error' = "SystemExit"
            /\ pc' = "exited"
       ELSE /\ pc' = "get_video_metadata"
            /\ UNCHANGED <<stderr, exit_status, error>>
    /\ UNCHANGED <<envVars, urlVars, tagVars, titleVars, fsVars, stdout, resolution,
                   video_id, metadata, size, embed_code, vault_path, requests, consumed>>

\* snippet.get('tags', [])
snippet_tags(sn) == IF sn.tags = None THEN <<>> ELSE sn.tags

\* main, line 129: the whole of get_video_metadata.  video_id is a local of
\* get_video_metadata.
GetVideoMetadata ==
    /\ pc = "get_video_metadata"
    /\ video_id' = extract_video_id(youtube_url)
    /\ requests' = Append(requests, video_id')
    /\ \E response \in Responses :
          IF response.raises
          THEN /\ Raise("HttpError")
               /\ UNCHANGED metadata
          ELSE /\ IF response.items = <<>>
                  THEN metadata' = [type |-> "str", value |-> msg_not_found]
                  ELSE LET snippet == response.items[1].snippet
                       IN  metadata' =
                             [type |-> "dict",
                              value |-> [url |-> youtube_url,
                                         title |-> snippet.title,
                                         description |-> snippet.description,
                                         channel |-> snippet.channelTitle,
                                         published |-> snippet.publishedAt,
                                         tags |-> sanitize_tags(snippet_tags(snippet))]]
               /\ pc' = "print"
               /\ UNCHANGED <<stderr, exit_status, error>>
    /\ UNCHANGED <<envVars, urlVars, tagVars, titleVars, fsVars, stdout, resolution,
                   size, embed_code, vault_path, consumed>>

\* main, line 130
PrintMetadata ==
    /\ pc = "print"
    /\ stdout' = Append(stdout, [json |-> metadata])
    /\ pc' = "lookup"
    /\ UNCHANGED <<envVars, urlVars, tagVars, titleVars, fsVars, stderr, exit_status,
                   error, resolution, video_id, metadata, size, embed_code, vault_path,
                   requests, consumed>>

\* main, line 132
LookupResolution ==
    /\ pc = "lookup"
    /\ IF dict_has(RESOLUTIONS, resolution)
       THEN /\ size' = dict_get(RESOLUTIONS, resolution)
            /\ pc' = "generate_embed_code"
            /\ UNCHANGED <<stderr, exit_status, error>>
       ELSE /\ Raise("KeyError")
            /\ UNCHANGED size
    /\ UNCHANGED <<envVars, urlVars, tagVars, titleVars, fsVars, stdout, resolution,
                   video_id, metadata, embed_code, vault_path, requests, consumed>>

\* main, line 133: the argument video_id is read in main, where no such name
\* is bound, so the call is never made.
GenerateEmbedCode ==
    /\ pc = "generate_embed_code"
    /\ "video_id" \notin main_locals \cup module_globals
    /\ Raise("NameError")
    /\ UNCHANGED <<envVars, urlVars, tagVars, titleVars, fsVars, stdout, resolution,
                   video_id, metadata, size, embed_code, vault_path, requests, consumed>>

Next ==
    \/ ParseArgs
    \/ CheckApiKey
    \/ GetVideoMetadata
    \/ PrintMetadata
    \/ LookupResolution
    \/ GenerateEmbedCode

Spec == Init /\ [][Next]_vars

(***************************************************************************)
(* create_markdown_file (lines 92-117), called with a metadata record.     *)
(* main never reaches its call of line 137.                                *)
(***************************************************************************)
\* os.path.join(os.path.expanduser(vault_path), 'youtube')
youtube_folder_path(v) == v \o <<"/", "y", "o", "u", "t", "u", "b", "e">>
\* os.path.join(youtube_folder_path, f'{title}.md') for the sanitized title
file_path(v, t) ==
    youtube_folder_path(v) \o <<"/">> \o sanitize_filename(t) \o <<".", "m", "d">>

txt_open == <<"---\n">>
txt_iframe == <<"<iframe ...></iframe>">>
txt_old == <<"old content">>

InitWriter ==
    /\ pc = "create_markdown_file"
    /\ \E t \in SeqsUpTo(TitleChars, MaxTitleLen - 1), d \in {<<>>, <<"d">>},
          tg \in {<<>>, << <<"a">> >>} :
          metadata = [type |-> "dict",
                      value |-> [url |-> <<"u">>, title |-> t, description |-> d,
                                 channel |-> <<"c">>, published |-> None, tags |-> tg]]
    /\ embed_code = txt_iframe
    /\ vault_path = <<"v">>
    /\ files \in {{}, {[path |-> file_path(vault_path, metadata.value.title),
                        content |-> <<txt_old>>]}}
    /\ dirs \in {{}, {vault_path, youtube_folder_path(vault_path)}}
    /\ size = <<>> /\ requests = <<>> /\ consumed = FALSE
    /\ stdout = <<>> /\ stderr = <<>> /\ exit_status = 0 /\ error = ""
    /\ EnvIdle /\ UrlIdle /\ TagsIdle /\ TitleIdle

\* lines 94-95: os.makedirs(..., exist_ok=True) makes the missing parents too
Makedirs ==
    /\ pc = "create_markdown_file"
    /\ dirs' = dirs \cup {vault_path, youtube_folder_path(vault_path)}
    /\ consumed' = TRUE
    /\ pc' = "open"
    /\ UNCHANGED <<envVars, urlVars, tagVars, titleVars, files, ioVars, resolution,
                   video_id, metadata, size, embed_code, vault_path, requests>>

\* lines 97-101: open(file_path, 'w') creates the file or empties it
OpenFile ==
    /\ pc = "open"
    /\ LET path == file_path(vault_path, metadata.value.title)
       IN  files' = {f \in files : f.path # path} \cup {[path |-> path, content |-> <<>>]}
    /\ pc' = "write"
    /\ UNCHANGED <<envVars, urlVars, tagVars, titleVars, dirs, ioVars, resolution,
                   video_id, metadata, size, embed_code, vault_path, requests, consumed>>

\* file.write(text) on the open file
file_write(fs, path, text) ==
    {IF f.path = path THEN [f EXCEPT !.content = Append(@, text)] ELSE f : f \in fs}

\* line 102
WriteOpening ==
    /\ pc = "write"
    /\ files' = file_write(files, file_path(vault_path, metadata.value.title), txt_open)
    /\ pc' = "write_date"
    /\ UNCHANGED <<envVars, urlVars, tagVars, titleVars, dirs, ioVars, resolution,
                   video_id, metadata, size, embed_code, vault_path, requests, consumed>>

\* line 103: datetime is read, and no such name is bound; the with statement
\* closes the file, which keeps what was written, and the exception goes on.
WriteDate ==
    /\ pc = "write_date"
    /\ "datetime" \notin create_markdown_file_locals \cup module_globals
    /\ error' = "NameError"
    /\ exit_status' = 1
    /\ stderr' = Append(stderr, msg_traceback)
    /\ pc' = "raised"
    /\ UNCHANGED <<envVars, urlVars, tagVars, titleVars, fsVars, stdout, resolution,
                   video_id, metadata, size, embed_code, vault_path, requests, consumed>>

NextWriter == Makedirs \/ OpenFile \/ WriteOpening \/ WriteDate

SpecWriter == InitWriter /\ [][NextWriter]_vars

(***************************************************************************)
(* The claims.                                                             *)
(***************************************************************************)
Chars(s) == {s[i] : i \in 1..Len(s)}
FileAt(path) == {f \in files : f.path = path}

\* C1: a run with the credential set, a URL of a supported shape, a found
\* video and a preset resolution ends with exit status 0, no error, and
\* exactly one file, <sanitized-title>.md in <vault>/youtube/.
C1_RunWritesNote ==
    (/\ pc = "exited"
     /\ TUBER_API_KEY # None /\ TUBER_API_KEY # <<>>
     /\ url_shape \in SupportedShapes
     /\ metadata.type = "dict"
     /\ dict_has(RESOLUTIONS, resolution))
    => /\ exit_status = 0
       /\ error = ""
       /\ Cardinality(files) = 1
       /\ FileAt(file_path(vault_path, metadata.value.title)) # {}

\* C2: when the URL yields no identifier, no request is issued (none with
\* an absent identifier in particular), no file is written, and the run ends
\* with a non-zero status.
C2_NoIdentifierHalts ==
    (/\ pc \notin {"parse_args", "main", "get_video_metadata"}
     /\ video_id = None)
    => /\ requests = <<>>
       /\ files = {}
       /\ pc = "exited" => exit_status # 0

\* The errors that end a run whose lookup found the video.
ErrorsOfFoundRuns == {"KeyError", "NameError"}

\* A run whose lookup found the video ends in one of these errors (holds
\* under Spec, and each of the two is reached).
FoundRunsEndInTheseErrors ==
    (pc = "exited" /\ metadata.type = "dict") => error \in ErrorsOfFoundRuns

\* C3: when the service returns no item, the run ends in a failure that a
\* run which found the video cannot end in, no file is written, and the
\* result of the lookup is handed neither to the embed nor to the note.
C3_NotFoundHalts ==
    (pc = "exited" /\ metadata.type = "str")
    => /\ exit_status # 0
       /\ error \notin ErrorsOfFoundRuns
       /\ files = {} /\ dirs = {}
       /\ ~consumed

\* The resolution that reaches the run: the flag's, else the configuration
\* file's, else none.
GivenResolution == IF flag_resolution # None THEN flag_resolution ELSE config_resolution

\* C4: when the resolution that reaches the run is no key of the preset
\* table, no request is ever issued, no file or directory is written, and the
\* run ends with a non-zero status.
C4_BadResolutionFailsFirst ==
    ~dict_has(RESOLUTIONS, GivenResolution)
    => /\ requests = <<>>
       /\ files = {} /\ dirs = {}
       /\ pc = "exited" => exit_status # 0

\* C5: when the credential is absent or empty, the run never gets past the
\* credential check: no identifier is extracted, no request is issued, no
\* file or directory is written, and it ends with a diagnostic on standard
\* error and a non-zero status.
C5_MissingCredentialHalts ==
    (TUBER_API_KEY = None \/ TUBER_API_KEY = <<>>)
    => /\ pc \in {"parse_args", "main", "exited"}
       /\ video_id = None
       /\ requests = <<>>
       /\ files = {} /\ dirs = {}
       /\ pc = "exited" => (exit_status # 0 /\ stderr # <<>> /\ error = "SystemExit")

C5_Witness ==
    /\ pc = "exited"
    /\ TUBER_API_KEY = <<>>
    /\ exit_status = 1
    /\ stderr = <<msg_no_key>>
    /\ url_shape \in SupportedShapes
    /\ dict_has(RESOLUTIONS, resolution)

\* C6: sanitizing sanitized tags changes nothing.
C6_SanitizeTagsIdempotent == pc = "returned" => resanitized = sanitized

\* C7: for a URL of a supported shape extract_video_id returns the
\* identifier and nothing more; for any other URL it returns None.
C7_ExtractsExactlyTheId ==
    pc = "returned"
    => /\ url_shape \in SupportedShapes => video_id = url_id
       /\ url_shape \in OtherShapes => video_id = None

NineChars == {"<", ">", ":", "\"", "/", "\\", "|", "?", "*"}

\* C8: sanitize_filename keeps the length, puts a hyphen in place of each of
\* the nine characters and leaves every other character where it is; the
\* result has no path separator, and a title with none of the nine is
\* returned as it is.
C8_FilenameSanitized ==
    pc = "returned"
    => /\ Len(safe_title) = Len(title)
       /\ \A i \in 1..Len(title) :
              safe_title[i] = IF title[i] \in NineChars THEN "-" ELSE title[i]
       /\ Chars(safe_title) \cap {"/", "\\"} = {}
       /\ Chars(title) \cap NineChars = {} => safe_title = title

C8_Witness ==
    /\ pc = "returned"
    /\ "\\" \in Chars(title)
    /\ Chars(title) \cap NineChars # Chars(title)
    /\ safe_title # title

\* The tag the claim describes: apostrophes removed, then every character
\* that is neither alphanumeric nor whitespace made a hyphen, then every
\* whitespace character made a hyphen, then lowercased.
ClaimedTag(tag) ==
    LET t1 == str_replace(tag, "'", <<>>)
        t2 == [i \in 1..Len(t1) |->
                  IF t1[i] \in Alnum \/ IsSpace(t1[i]) THEN t1[i] ELSE "-"]
        t3 == [i \in 1..Len(t2) |-> IF IsSpace(t2[i]) THEN "-" ELSE t2[i]]
    IN  str_lower(t3)

\* C9: sanitize_tags keeps the number and the order of the tags, the i-th
\* token is the i-th tag sanitized as described, and a token holds lowercase
\* alphanumerics and hyphens only.
C9_TagsSanitizedAsDescribed ==
    pc # "sanitize_tags"
    => /\ Len(sanitized) = Len(tags)
       /\ \A i \in 1..Len(tags) :
              /\ sanitized[i] = ClaimedTag(tags[i])
              /\ Chars(sanitized[i]) \subseteq LowerLetters \cup Digits \cup {"-"}

txt_close == <<"---\n\n">>
txt_blank == <<"\n">>
txt_heading == <<"## Description\n">>

\* The content the claim describes: a frontmatter block from "---" to "---"
\* and a blank line, then the embed snippet, a blank line, the heading and
\* the description, and nothing else.
IsNote(content) ==
    \E k \in 2..Len(content) :
        /\ content[1] = txt_open
        /\ content[k] = txt_close
        /\ SubSeq(content, k + 1, Len(content))
               = <<embed_code, txt_blank, txt_heading, metadata.value.description>>

\* C10: once create_markdown_file is over, the file of the derived name holds
\* the note and nothing else, whatever it held before.
C10_FileHoldsTheNote ==
    pc \in {"raised", "returned"}
    => \A f \in FileAt(file_path(vault_path, metadata.value.title)) : IsNote(f.content)

====
